---- MODULE Spec2Model ----
(***************************************************************************)
(* A model of go-snmplib's request engine (snmp.go): the retry loop poll,  *)
(* the v1/v2c requests, SNMPv3 discovery and GetV3/GetNextV3 with their    *)
(* privacy salts, and the GetTable walk.                                   *)
(***************************************************************************)
EXTENDS Integers, Sequences, FiniteSets, TLC

VARIABLES
  w,        \* the SNMP session object (struct SNMP)
  ret,      \* what the last operation called on the session returned
  walk,     \* the frame of a running GetTable call
  hist,     \* what the last two requests built on the session carried
  pollOut,  \* the outcome of the last direct call of poll
  sig       \* a v3 request being signed: its parts, and its bytes once signed

vars == <<w, ret, walk, hist, pollOut, sig>>

----------------------------------------------------------------------------
(* Bounds of the model. *)

MaxRetries == 2         \* retries are drawn from -1 .. MaxRetries
MaxRead == 2            \* a datagram read has 0 .. MaxRead bytes (poll harness)
MaxBatch == 2           \* a GetBulk response carries 0 .. MaxBatch varbinds
MaxRequests == 2        \* a v2c session makes at most MaxRequests requests

(* Program constants. *)

HalfSecond == 500       \* 500*time.Millisecond, the literal every caller passes

Nil == "nil"            \* the nil error

Timeouts == {HalfSecond, 2000}

----------------------------------------------------------------------------
(* The connection, as poll sees it.  For each attempt the connection      *)
(* either lets all four calls succeed ("ok") or fails one of them, named  *)
(* by the call that fails.                                                *)

ConnSteps == <<"SetWriteDeadline", "Write", "SetReadDeadline", "Read">>

ConnOutcomes == {ConnSteps[k] : k \in 1..4} \cup {"ok"}

ConnScripts(retries) ==
  IF retries + 1 <= 0 THEN {<< >>} ELSE [1..(retries + 1) -> ConnOutcomes]

(* The connections the sessions run on: their deadlines can always be     *)
(* set, a write or a read may fail, and the script ends with the attempt  *)
(* that receives, which is the last one poll makes.                       *)
SessionConnScripts(retries) ==
  {c \in UNION {[1..n -> {"Write", "Read", "ok"}] : n \in 1..(retries + 1)} :
     /\ \A k \in 1..(Len(c) - 1) : c[k] # "ok"
     /\ Len(c) < retries + 1 => c[Len(c)] = "ok"}

(* One call made on the connection: which, in which attempt, and the      *)
(* deadline it was given (0 for Write and Read, which take none).         *)
ConnCall(call, i, timeout) == [call |-> call, attempt |-> i, timeout |-> timeout]

(* What the connection does in attempt i (counted from 0); a connection   *)
(* with nothing scripted for an attempt delivers no datagram to its Read. *)
ConnOutcome(conn, i) == IF i + 1 \in DOMAIN conn THEN conn[i + 1] ELSE "Read"

(* The loop condition of poll: for i := 0; i < retries+1; i++.            *)
PollLoopCond_OneMore(i, retries) == i < retries + 2

PollLoopCond(i, retries) == i < retries + 1

(* The loop of poll from iteration i on.  st carries err, the calls made  *)
(* on the connection so far and the buffers handed to Write so far.       *)
RECURSIVE pollFrom(_, _, _, _, _, _, _)
pollFrom(conn, toSend, numRead, retries, timeout, i, st) ==
  IF ~PollLoopCond(i, retries)
  THEN \* return 0, err
       [numRead |-> 0, err |-> st.err, calls |-> st.calls, written |-> st.written,
        received |-> FALSE]
  ELSE
    LET o  == ConnOutcome(conn, i)
        c1 == Append(st.calls, ConnCall("SetWriteDeadline", i, timeout))
        c2 == Append(c1, ConnCall("Write", i, 0))
        w2 == Append(st.written, toSend)
        c3 == Append(c2, ConnCall("SetReadDeadline", i, timeout))
        c4 == Append(c3, ConnCall("Read", i, 0))
    IN
    IF o = "SetWriteDeadline"
    THEN \* continue
         pollFrom(conn, toSend, numRead, retries, timeout, i + 1,
                  [err |-> o, calls |-> c1, written |-> st.written])
    ELSE IF o = "Write"
    THEN pollFrom(conn, toSend, numRead, retries, timeout, i + 1,
                  [err |-> o, calls |-> c2, written |-> w2])
    ELSE IF o = "SetReadDeadline"
    THEN pollFrom(conn, toSend, numRead, retries, timeout, i + 1,
                  [err |-> o, calls |-> c3, written |-> w2])
    ELSE IF o = "Read"
    THEN pollFrom(conn, toSend, numRead, retries, timeout, i + 1,
                  [err |-> o, calls |-> c4, written |-> w2])
    ELSE \* return numRead, nil
         [numRead |-> numRead, err |-> Nil, calls |-> c4, written |-> w2,
          received |-> TRUE]

(* poll(conn, toSend, respondBuffer, retries, timeout): numRead is the    *)
(* size of the datagram the connection delivers to a Read that succeeds.  *)
poll(conn, toSend, numRead, retries, timeout) ==
  pollFrom(conn, toSend, numRead, retries, timeout, 0,
           [err |-> Nil, calls |-> << >>, written |-> << >>])

NoPoll == [numRead |-> 0, err |-> Nil, calls |-> << >>, written |-> << >>,
           received |-> FALSE]

(* The variables a specification does not use stay at these values.      *)
NoWalk == [pc |-> "idle"]
NoPollOut == [retries |-> 0, toSend |-> "none", datagram |-> 0, timeout |-> 0,
              conn |-> << >>, res |-> NoPoll, called |-> FALSE]
NoSig == [signed |-> FALSE]

----------------------------------------------------------------------------
(* Fixed-width counters.  A uint32 or int64 is kept as its big-endian    *)
(* 16-bit limbs, as binary.Write(buf, binary.BigEndian, x) lays it out,   *)
(* so that x++ wraps at the width the Go type has.                        *)

Limb == 2 ^ 16

RECURSIVE IncBE(_)
IncBE(s) ==
  IF s = << >> THEN << >>
  ELSE LET n == Len(s) IN
       IF s[n] = Limb - 1
       THEN Append(IncBE(SubSeq(s, 1, n - 1)), 0)
       ELSE [s EXCEPT ![n] = s[n] + 1]

(* s < t for two unsigned big-endian numbers of the same length.          *)
RECURSIVE LessBE(_, _)
LessBE(s, t) ==
  IF s = << >> \/ t = << >> THEN FALSE
  ELSE IF Head(s) # Head(t) THEN Head(s) < Head(t)
  ELSE LessBE(Tail(s), Tail(t))

(* rand.Uint32() and rand.Int63(): a small value and the greatest value   *)
(* each can return; RandSeeds are the pairs Discover draws.               *)
Uint32Seeds == {<<0, 7>>, <<Limb - 1, Limb - 1>>}
Int63Seeds == {<<0, 0, 0, 7>>, <<(Limb \div 2) - 1, Limb - 1, Limb - 1, Limb - 1>>}
RandSeeds == {<<a, d>> \in Int63Seeds \X Uint32Seeds : (a[4] = 7) <=> (d[2] = 7)}

----------------------------------------------------------------------------
(* Password to key.  A digest is kept as what was hashed and its length.  *)

EmptyKey == [pw |-> "", eid |-> "", h |-> "", len |-> 0]

HashLen(hashAlg) == IF hashAlg = "MD5" THEN 16 ELSE 20

(* passwordToKey divides 1048576 by len(password): an empty password      *)
(* panics (integer divide by zero).                                       *)
passwordToKeyPanics(password) == password = ""

passwordToKey(password, engineID, hashAlg) ==
  [pw |-> password, eid |-> engineID, h |-> hashAlg, len |-> HashLen(hashAlg)]

(* string(([]byte(privKey))[0:16]) *)
First16(key) == [key EXCEPT !.len = 16]

----------------------------------------------------------------------------
(* Sessions. *)

SnmpAES == "AES"
SnmpDES == "DES"
SnmpSHA1 == "SHA1"
SnmpMD5 == "MD5"

SNMPv2c == 1
SNMPv3 == 3

(* NewSNMP: the v3 fields keep their zero values.                         *)
NewSNMP(community, version, timeout, retries) ==
  [Version |-> version, Community |-> community, timeout |-> timeout,
   retries |-> retries,
   user |-> "", authAlg |-> "", authPwd |-> "", privAlg |-> "", privPwd |-> "",
   engineID |-> "", authKey |-> EmptyKey, privKey |-> EmptyKey,
   engineBoots |-> 0, engineTime |-> 0,
   desIV |-> <<0, 0>>, aesIV |-> <<0, 0, 0, 0>>, TrapUsers |-> << >>]

(* NewSNMPv3, for arguments that pass its two checks.                     *)
NewSNMPv3(user, authAlg, authPwd, privAlg, privPwd, timeout, retries) ==
  [NewSNMP("", SNMPv3, timeout, retries) EXCEPT
     !.user = user, !.authAlg = authAlg, !.authPwd = authPwd,
     !.privAlg = privAlg, !.privPwd = privPwd]

----------------------------------------------------------------------------
(* Datagrams received from the agent, as far as the decoders look at      *)
(* them.  kind "garbage": DecodeSequence fails on the datagram; "badhdr": *)
(* it fails on the security parameters; "v3": both decode.  body is the   *)
(* encrypted scoped PDU: whether its length is a multiple of 8, and       *)
(* whether the plaintext is a PDU that decodes ("pdu") or not ("junk").   *)
(* Byte strings are kept as 16-bit limbs: 8 bytes are 4 limbs.            *)

EngineIDs == {"", "engA"}
EngineClocks == {<<1, 10>>, <<2, 11>>}
AuthParams == {<< >>, <<1, 2, 3, 4, 5, 6>>}
PrivParams == {<< >>, <<0, 0, 0, 9>>}
Bodies == {[mult8 |-> TRUE, plain |-> "pdu"], [mult8 |-> TRUE, plain |-> "junk"],
           [mult8 |-> FALSE, plain |-> "pdu"]}

V3Datagram(e, c, a, p, b) ==
  [kind |-> "v3", len |-> 3, engineID |-> e, engineBoots |-> c[1],
   engineTime |-> c[2], authParam |-> a, privParam |-> p, body |-> b,
   oid |-> <<1, 1>>, val |-> "value"]

(* A datagram without auth-param or priv-param is a plaintext one: only   *)
(* the datagrams that carry both are drawn with every kind of body.       *)
V3Datagrams ==
  {[kind |-> "garbage", len |-> 1], [kind |-> "badhdr", len |-> 2]}
  \cup
  {V3Datagram(e, c, a, p, b) :
      e \in EngineIDs, c \in EngineClocks, a \in AuthParams \ {<< >>},
      p \in PrivParams \ {<< >>}, b \in Bodies}
  \cup
  {V3Datagram(e, c, ap[1], ap[2], [mult8 |-> TRUE, plain |-> "pdu"]) :
      e \in EngineIDs, c \in EngineClocks,
      ap \in {x \in AuthParams \X PrivParams : x[1] = << >> \/ x[2] = << >>}}

----------------------------------------------------------------------------
(* What an operation returned.  panic: the process was terminated by a    *)
(* run-time panic inside the operation.  sent: how many times poll handed *)
(* the request to conn.Write; deadlines: the timeouts poll was given.     *)
(* resp: the kind of the datagram poll received, if any; authParam and    *)
(* privParam: whether its security parameters carry a non-empty one;      *)
(* decrypted: whether the operation called decrypt on its scoped PDU;     *)
(* trap: the Trap ParseTrap returned; dgram: which of TrapDatagrams it    *)
(* was given; creds: the credentials it decrypted with.                   *)
(* requestID: the request-id of the v1/v2c request; respID and varbinds:  *)
(* the request-id and the varbinds of the response PDU received.          *)
(* table: the map a GetBulk or GetTable returned.  respBoots, respTime:   *)
(* the engine-boots and engine-time of the response's security            *)
(* parameters; mult8: whether the length of its encrypted scoped PDU is a *)
(* multiple of 8.                                                         *)

(* Trap{VarBinds: map[string]interface{}{}} *)
NoTrap == [Version |-> 0, OID |-> << >>, Community |-> "", Username |-> "",
           Address |-> "", VarBinds |-> {}]

NoCreds == [user |-> "", authAlg |-> "", privAlg |-> "", authKey |-> EmptyKey,
            privKey |-> EmptyKey]

Returned(op, err, oid, val, p) ==
  [op |-> op, panic |-> FALSE, err |-> err, oid |-> oid, val |-> val,
   table |-> {},
   resp |-> "none", authParam |-> FALSE, privParam |-> FALSE, decrypted |-> FALSE,
   respBoots |-> 0, respTime |-> 0, mult8 |-> TRUE,
   requestID |-> 0, respID |-> 0, varbinds |-> << >>,
   trap |-> NoTrap, dgram |-> 0, creds |-> NoCreds,
   polled |-> p.calls # << >>, sent |-> Len(p.written),
   deadlines |-> {p.calls[k].timeout : k \in {j \in DOMAIN p.calls :
                     p.calls[j].call \in {"SetWriteDeadline", "SetReadDeadline"}}}]

Panicked(op, why, p) ==
  [Returned(op, why, << >>, "", p) EXCEPT !.panic = TRUE]

NoOid == << >>
NoVal == ""

(* r, for an operation that received datagram dg.                         *)
Received(r, dg, decrypted) ==
  IF dg.kind = "v3"
  THEN [r EXCEPT !.resp = dg.kind, !.authParam = Len(dg.authParam) > 0,
                 !.privParam = Len(dg.privParam) > 0, !.decrypted = decrypted,
                 !.respBoots = dg.engineBoots, !.respTime = dg.engineTime,
                 !.mult8 = dg.body.mult8]
  ELSE [r EXCEPT !.resp = dg.kind]

----------------------------------------------------------------------------
(* Privacy. *)

(* aes.NewCipher accepts keys of 16, 24 or 32 bytes.                      *)
AesKeyOk(key) == key.len \in {16, 24, 32}

(* binary.Write(buf, binary.BigEndian, x) of an int32 in 0 .. 2^16-1.    *)
BE32(x) == <<0, x>>

(* func (w SNMP) encrypt(payload): the receiver is a copy of the session. *)
(* The result carries that copy (wcopy) as encrypt leaves it.  panic:     *)
(* slicing privKey[:8] or privKey[8:16] out of range.  failed: the error  *)
(* of aes.NewCipher, returned with empty strings.                         *)
encrypt(ws, payload) ==
  IF ws.privAlg = SnmpAES
  THEN LET wc == [ws EXCEPT !.aesIV = IncBE(ws.aesIV)]
           privParam == wc.aesIV
           iv == BE32(wc.engineBoots) \o BE32(wc.engineTime) \o privParam
       IN IF ~AesKeyOk(wc.privKey)
          THEN [panic |-> FALSE, failed |-> TRUE, encrypted |-> [empty |-> TRUE],
                privParam |-> << >>, wcopy |-> wc]
          ELSE [panic |-> FALSE, failed |-> FALSE,
                encrypted |-> [empty |-> FALSE, alg |-> SnmpAES, key |-> wc.privKey,
                               iv |-> iv, plain |-> payload],
                privParam |-> privParam, wcopy |-> wc]
  ELSE IF ws.privKey.len < 16
  THEN [panic |-> TRUE, failed |-> TRUE, encrypted |-> [empty |-> TRUE],
        privParam |-> << >>, wcopy |-> ws]
  ELSE LET wc == [ws EXCEPT !.desIV = IncBE(ws.desIV)]
           privParam == BE32(wc.engineBoots) \o wc.desIV
       IN [panic |-> FALSE, failed |-> FALSE,
           encrypted |-> [empty |-> FALSE, alg |-> SnmpDES, key |-> wc.privKey,
                          iv |-> privParam, plain |-> payload],
           privParam |-> privParam, wcopy |-> wc]

(* func (w SNMP) decrypt(payload, privParam) for the scoped PDU of a      *)
(* received datagram.  It panics when the IV is not one cipher block      *)
(* (cipher.NewCFBDecrypter, strXor), when privKey is shorter than 16      *)
(* bytes (DES) and on a DES payload whose length is no multiple of 8.     *)
(* decryptAESCFB returns nil when aes.NewCipher fails, leaving zeroes.    *)
decrypt(ws, body, privParam) ==
  IF ws.privAlg = SnmpAES
  THEN IF ~AesKeyOk(ws.privKey) THEN [panic |-> FALSE, plain |-> "junk"]
       ELSE IF Len(privParam) # 4 THEN [panic |-> TRUE, plain |-> "junk"]
       ELSE [panic |-> FALSE, plain |-> body.plain]
  ELSE IF ws.privKey.len < 16 THEN [panic |-> TRUE, plain |-> "junk"]
  ELSE IF Len(privParam) # 4 THEN [panic |-> TRUE, plain |-> "junk"]
  ELSE IF ~body.mult8 THEN [panic |-> TRUE, plain |-> "junk"]
  ELSE [panic |-> FALSE, plain |-> body.plain]

(* func (w SNMP) auth(wholeMsg): the first 12 bytes of the HMAC.          *)
auth(ws, wholeMsg) == [key |-> ws.authKey, h |-> ws.authAlg, msg |-> wholeMsg]

----------------------------------------------------------------------------
(* The v3 operations.  Each action is one call: it draws what the         *)
(* connection does in each attempt and, if poll receives, the datagram.   *)

Oids == {<<1, 1>>}

AsnGetRequest == "GetRequest"
AsnGetNextRequest == "GetNextRequest"

Alive == ~ret.panic

(* hist keeps the privacy data of the last two requests encrypt produced. *)
Remember(h, e) == IF Len(h) = 2 THEN <<h[2], e>> ELSE Append(h, e)

(* The arguments sessions are made with:                                  *)
(* <<authAlg, authPwd, privPwd, timeout, retries>>, for either privAlg.   *)
SessionArgs == {<<SnmpMD5, "secret", "private", HalfSecond, 0>>,
                <<SnmpSHA1, "secret", "private", 2000, 1>>,
                <<SnmpSHA1, "", "private", 2000, 0>>}

DiscoverReq(ws) ==
  [version |-> ws.Version, flags |-> 4, engineID |-> "", engineBoots |-> 0,
   engineTime |-> 0, user |-> "", authParam |-> << >>, privParam |-> << >>,
   pdu |-> AsnGetRequest]

(* Discover, lines 294-310: what it does with a Report that decoded.      *)
DiscoverAdopt(ws, dg, aesSeed, desSeed) ==
  [ws EXCEPT !.engineID = dg.engineID, !.engineBoots = dg.engineBoots,
             !.engineTime = dg.engineTime, !.aesIV = aesSeed, !.desIV = desSeed,
             !.authKey = passwordToKey(ws.authPwd, dg.engineID, ws.authAlg),
             !.privKey = First16(passwordToKey(ws.privPwd, dg.engineID, ws.authAlg))]

(* func (w *SNMP) Discover() error *)
Discover ==
  /\ Alive
  /\ \E conn \in SessionConnScripts(w.retries) :
       LET p0 == poll(conn, DiscoverReq(w), 0, w.retries, HalfSecond) IN
       IF p0.err # Nil
       THEN /\ ret' = Returned("Discover", p0.err, NoOid, NoVal, p0)
            /\ UNCHANGED <<w, hist>>
       ELSE \E dg \in V3Datagrams, seed \in RandSeeds :
              LET p == poll(conn, DiscoverReq(w), dg.len, w.retries, HalfSecond)
                  aesSeed == seed[1]
                  desSeed == seed[2]
              IN
              IF dg.kind = "garbage"
              THEN /\ ret' = Received(Panicked("Discover", "decode", p), dg, FALSE)
                   /\ UNCHANGED <<w, hist>>
              ELSE IF dg.kind = "badhdr"
              THEN /\ ret' = Received(Returned("Discover", "decode", NoOid, NoVal, p),
                                      dg, FALSE)
                   /\ UNCHANGED <<w, hist>>
              ELSE IF passwordToKeyPanics(w.authPwd) \/ passwordToKeyPanics(w.privPwd)
              THEN /\ ret' = Received(Panicked("Discover", "divide by zero", p),
                                      dg, FALSE)
                   /\ w' = [w EXCEPT !.engineID = dg.engineID,
                                     !.engineBoots = dg.engineBoots,
                                     !.engineTime = dg.engineTime,
                                     !.aesIV = aesSeed, !.desIV = desSeed]
                   /\ hist' = << >>
              ELSE /\ ret' = Received(Returned("Discover", Nil, NoOid, NoVal, p),
                                      dg, FALSE)
                   /\ w' = DiscoverAdopt(w, dg, aesSeed, desSeed)
                   /\ hist' = << >>
  /\ UNCHANGED <<walk, pollOut, sig>>

(* The request doGetV3 hands to poll, lines 472-500.                      *)
V3Packet(ws, oid, request, enc) ==
  LET scoped == [engineID |-> ws.engineID, pdu |-> request, oid |-> oid]
      packet == [version |-> ws.Version, flags |-> 7, engineID |-> ws.engineID,
                 engineBoots |-> ws.engineBoots, engineTime |-> ws.engineTime,
                 user |-> ws.user, privParam |-> enc.privParam,
                 encrypted |-> enc.encrypted]
  IN [packet |-> packet, authParam |-> auth(ws, packet)]

(* What a request built by doGetV3 carries: the engine clock and user of  *)
(* its header, its priv-param, and the key and IV its scoped PDU was       *)
(* encrypted with and the key it was signed with.                          *)
RequestUsed(alg, req, enc) ==
  [alg |-> alg,
   engineBoots |-> req.packet.engineBoots, engineTime |-> req.packet.engineTime,
   user |-> req.packet.user, privParam |-> req.packet.privParam,
   iv |-> IF enc.encrypted.empty THEN << >> ELSE enc.encrypted.iv,
   privKey |-> IF enc.encrypted.empty THEN EmptyKey ELSE enc.encrypted.key,
   authKey |-> req.authParam.key, authAlg |-> req.authParam.h]

(* doGetV3, lines 526-528: the engine state taken from a response.        *)
AdoptEngine_IdOnly(ws, dg) == [ws EXCEPT !.engineID = dg.engineID]

AdoptEngine(ws, dg) ==
  [ws EXCEPT !.engineID = dg.engineID, !.engineBoots = dg.engineBoots,
             !.engineTime = dg.engineTime]

(* doGetV3, line 533: the response is refused as not encrypted.           *)
NotEncrypted_AuthOnly(dg) == Len(dg.authParam) = 0

NotEncrypted(dg) == Len(dg.authParam) = 0 \/ Len(dg.privParam) = 0

(* func (w *SNMP) doGetV3(oid Oid, request BERType) *)
doGetV3(op, oid, request) ==
  /\ Alive
  /\ LET enc == encrypt(w, [engineID |-> w.engineID, pdu |-> request, oid |-> oid])
         req == V3Packet(w, oid, request, enc)
         used == RequestUsed(w.privAlg, req, enc)
     IN
     IF enc.panic
     THEN /\ ret' = Panicked(op, "slice bounds out of range", NoPoll)
          /\ UNCHANGED <<w, hist>>
     ELSE
       /\ hist' = Remember(hist, used)
       /\ \E conn \in SessionConnScripts(w.retries) :
            LET p0 == poll(conn, req, 0, w.retries, HalfSecond) IN
            IF p0.err # Nil
            THEN /\ ret' = Returned(op, p0.err, NoOid, NoVal, p0)
                 /\ UNCHANGED w
            ELSE \E dg \in V3Datagrams :
                   LET p == poll(conn, req, dg.len, w.retries, HalfSecond) IN
                   IF dg.kind \in {"garbage", "badhdr"}
                   THEN /\ ret' = Received(Returned(op, "decode", NoOid, NoVal, p),
                                           dg, FALSE)
                        /\ UNCHANGED w
                   ELSE
                     /\ w' = AdoptEngine(w, dg)
                     /\ IF NotEncrypted(dg)
                        THEN ret' = Received(Returned(op, "response is not encrypted",
                                                      NoOid, NoVal, p), dg, FALSE)
                        ELSE LET d == decrypt(AdoptEngine(w, dg), dg.body, dg.privParam)
                             IN IF d.panic
                                THEN ret' = Received(Panicked(op, "decrypt", p), dg, TRUE)
                                ELSE IF d.plain # "pdu"
                                THEN ret' = Received(Returned(op, "decode", NoOid,
                                                              NoVal, p), dg, TRUE)
                                ELSE ret' = Received(Returned(op, Nil,
                                         IF op = "GetV3" THEN NoOid ELSE dg.oid,
                                         dg.val, p), dg, TRUE)
  /\ UNCHANGED <<walk, pollOut, sig>>

(* func (w *SNMP) GetV3(oid Oid): the OID of the reply is dropped.        *)
GetV3 == \E oid \in Oids : doGetV3("GetV3", oid, AsnGetRequest)

(* func (w *SNMP) GetNextV3(oid Oid) *)
GetNextV3 == \E oid \in Oids : doGetV3("GetNextV3", oid, AsnGetNextRequest)

Init ==
  /\ \E privAlg \in {SnmpAES, SnmpDES}, a \in SessionArgs :
       w = NewSNMPv3("admin", a[1], a[2], privAlg, a[3], a[4], a[5])
  /\ ret = Returned("NewSNMPv3", Nil, NoOid, NoVal, NoPoll)
  /\ walk = NoWalk
  /\ hist = << >>
  /\ pollOut = NoPollOut
  /\ sig = NoSig

Next == Discover \/ GetV3 \/ GetNextV3

Spec == Init /\ [][Next]_vars

----------------------------------------------------------------------------
(* Signing a v3 request, byte by byte (doGetV3, lines 483-500).  A byte   *)
(* is a number in 0 .. 255, a string a sequence of bytes.                 *)

maxMsgSize == 65500

AuthParamLen == 12

(* strings.Repeat("\x00", n) *)
Zeros(n) == [k \in 1..n |-> 0]

(* The codec's definite lengths: one byte up to 127, else the long form.  *)
EncLen(n) == IF n < 128 THEN <<n>> ELSE <<129, n>>

(* A non-negative integer in base 256, and its two's complement in the    *)
(* fewest bytes: a leading 0 when the top bit would be set.                *)
RECURSIVE Base256(_)
Base256(x) == IF x < 256 THEN <<x>> ELSE Append(Base256(x \div 256), x % 256)

IntBytes(x) == IF Base256(x)[1] >= 128 THEN <<0>> \o Base256(x) ELSE Base256(x)

EncInt(x) == <<2>> \o EncLen(Len(IntBytes(x))) \o IntBytes(x)

EncOctets(b) == <<4>> \o EncLen(Len(b)) \o b

EncSeq(content) == <<48>> \o EncLen(Len(content)) \o content

(* Lines 483-484: the security parameters, with the zeroed auth-param.    *)
V3HeaderBytes(engineID, engineBoots, engineTime, user, privParam) ==
  EncSeq(EncOctets(engineID) \o EncInt(engineBoots) \o EncInt(engineTime)
         \o EncOctets(user) \o EncOctets(Zeros(AuthParamLen)) \o EncOctets(privParam))

(* Lines 489-495: the whole message before it is signed.                  *)
PacketBytes(msgID, v3Header, encrypted) ==
  EncSeq(EncInt(SNMPv3)
         \o EncSeq(EncInt(msgID) \o EncInt(maxMsgSize) \o EncOctets(<<7>>) \o EncInt(3))
         \o EncOctets(v3Header) \o EncOctets(encrypted))

(* strings.Index(str, old), counted from 1; 0 when old does not occur.    *)
StringsIndex(str, old) ==
  LET at == {i \in 1..(Len(str) - Len(old) + 1) :
               SubSeq(str, i, i + Len(old) - 1) = old}
  IN IF at = {} THEN 0 ELSE CHOOSE i \in at : \A j \in at : i <= j

(* strings.Replace(str, old, new, 1): the first occurrence is replaced.   *)
StringsReplace(str, old, new) ==
  LET i == StringsIndex(str, old)
  IN IF i = 0 THEN str
     ELSE SubSeq(str, 1, i - 1) \o new \o SubSeq(str, i + Len(old), Len(str))

(* The parts requests are signed with: engine-ids (one of them 12 zero    *)
(* bytes, one with more than 12 inside), users, message ids, salts,       *)
(* ciphertexts and digests.                                               *)
SignEngineIDs == {<<128, 0, 31, 136, 4>>, Zeros(12), <<128>> \o Zeros(13) \o <<2>>}
SignUsers == {<<97, 100, 109, 105, 110>>, <<97>> \o Zeros(12)}
SignMsgIDs == {0, 300}
SignSalts == {<<0, 0, 0, 1, 0, 0, 0, 8>>, Zeros(8)}
SignCiphertexts == {<<17, 34, 51>>, Zeros(16), <<9>> \o Zeros(12)}
SignDigests == {[k \in 1..AuthParamLen |-> 160 + k], [k \in 1..AuthParamLen |-> 255]}

InitSign ==
  /\ w = NewSNMPv3("admin", SnmpSHA1, "secret", SnmpAES, "private", HalfSecond, 0)
  /\ ret = Returned("NewSNMPv3", Nil, NoOid, NoVal, NoPoll)
  /\ walk = NoWalk
  /\ hist = << >>
  /\ pollOut = NoPollOut
  /\ \E e \in SignEngineIDs, u \in SignUsers, m \in SignMsgIDs, p \in SignSalts,
        c \in SignCiphertexts, d \in SignDigests :
       sig = [signed |-> FALSE, engineID |-> e, user |-> u, msgID |-> m,
              privParam |-> p, encrypted |-> c, digest |-> d]

(* doGetV3, lines 483-500, on the parts in sig: serialize with the zeroed *)
(* auth-param, compute the digest over it, substitute.                    *)
Sign ==
  /\ ~sig.signed
  /\ LET v3Header == V3HeaderBytes(sig.engineID, 1, 10, sig.user, sig.privParam)
         packet == PacketBytes(sig.msgID, v3Header, sig.encrypted)
         authParam == sig.digest
         slot == Len(packet) - Len(EncOctets(sig.encrypted))
                   - Len(EncOctets(sig.privParam)) - AuthParamLen + 1
         finalPacket == StringsReplace(packet, Zeros(AuthParamLen), authParam)
     IN sig' = [signed |-> TRUE, engineID |-> sig.engineID, user |-> sig.user,
                msgID |-> sig.msgID, privParam |-> sig.privParam,
                encrypted |-> sig.encrypted, digest |-> sig.digest,
                packet |-> packet, slot |-> slot, finalPacket |-> finalPacket]
  /\ UNCHANGED <<w, ret, walk, hist, pollOut>>

NextSign == Sign

SpecSign == InitSign /\ [][NextSign]_vars

----------------------------------------------------------------------------
(* OIDs.  An Oid is a sequence of naturals.  Its text is a sequence of    *)
(* characters: a "." and the decimal digits of each component.            *)

DigitChars == <<"0", "1", "2", "3", "4", "5", "6", "7", "8", "9">>

RECURSIVE Decimal(_)
Decimal(n) ==
  IF n < 10 THEN <<DigitChars[n + 1]>>
  ELSE Append(Decimal(n \div 10), DigitChars[(n % 10) + 1])

(* Oid.String() *)
RECURSIVE OidString(_)
OidString(o) ==
  IF o = << >> THEN << >>
  ELSE <<".">> \o Decimal(Head(o)) \o OidString(Tail(o))

DigitValue(ch) == (CHOOSE k \in 1..10 : DigitChars[k] = ch) - 1

(* The components of the text from position i on; cur is the component    *)
(* being read (-1: none yet).                                             *)
RECURSIVE ParseFrom(_, _, _)
ParseFrom(text, i, cur) ==
  IF i > Len(text) THEN (IF cur < 0 THEN << >> ELSE <<cur>>)
  ELSE IF text[i] = "."
  THEN (IF cur < 0 THEN << >> ELSE <<cur>>) \o ParseFrom(text, i + 1, -1)
  ELSE ParseFrom(text, i + 1, (IF cur < 0 THEN 0 ELSE cur * 10) + DigitValue(text[i]))

(* MustParseOid(text), for a text Oid.String() produced.                  *)
MustParseOid(text) == ParseFrom(text, 1, -1)

(* o.Within(other): other is a prefix of o.                               *)
Within(o, other) ==
  /\ Len(other) <= Len(o)
  /\ \A k \in 1..Len(other) : o[k] = other[k]

(* o before other in the lexicographic order of OIDs, or equal to it.     *)
RECURSIVE OidLeq(_, _)
OidLeq(o, other) ==
  IF o = << >> THEN TRUE
  ELSE IF other = << >> THEN FALSE
  ELSE IF Head(o) # Head(other) THEN Head(o) < Head(other)
  ELSE OidLeq(Tail(o), Tail(other))

----------------------------------------------------------------------------
(* Go maps from OID text to value, kept as sets of <<key, value>> with    *)
(* one pair per key.                                                      *)

MapKeys(m) == {kv[1] : kv \in m}

MapGet(m, k) == (CHOOSE kv \in m : kv[1] = k)[2]

(* m[k] = v *)
MapPut_KeepOld(m, k, v) == m \cup {<<k, v>>}

MapPut(m, k, v) == {kv \in m : kv[1] # k} \cup {<<k, v>>}

(* The orders in which a range over the map may enumerate its keys.       *)
RangeOrders(m) ==
  {f \in [1..Cardinality(MapKeys(m)) -> MapKeys(m)] :
     \A i, j \in DOMAIN f : f[i] = f[j] => i = j}

----------------------------------------------------------------------------
(* GetBulk and GetTable on a v2c session.                                 *)

MaxRepetitions == 50

(* The table walked and what the agent may return: two OIDs within the    *)
(* root, one after its subtree and one that is a prefix of the root.      *)
TableRoots == {<<1, 1>>}
AgentOids == {<<1>>, <<1, 1, 1>>, <<1, 1, 10>>, <<1, 10>>}
AgentValues == {"a", "b"}

(* The varbinds of a GetBulk response: at most MaxBatch (and at most      *)
(* maxRepetitions) of them, in the order of their OIDs.                   *)
VarbindLists ==
  {l \in UNION {[1..n -> AgentOids \X AgentValues] : n \in 0..MaxBatch} :
     /\ Len(l) <= MaxRepetitions
     /\ \A k \in 1..(Len(l) - 1) : OidLeq(l[k][1], l[k + 1][1])}

(* GetBulk, lines 618-623: the map built from the response's varbinds.    *)
RECURSIVE BulkResult(_, _)
BulkResult(varbinds, result) ==
  IF varbinds = << >> THEN result
  ELSE BulkResult(Tail(varbinds),
                  MapPut(result, OidString(Head(varbinds)[1]), Head(varbinds)[2]))

GetBulkReq(ws, oid, maxRepetitions) ==
  [version |-> ws.Version, community |-> ws.Community, pdu |-> "GetBulkRequest",
   nonRepeaters |-> 0, maxRepetitions |-> maxRepetitions, oid |-> oid]

(* GetTable, lines 641-643: an OID of the batch is stored if it is within *)
(* the root.                                                              *)
Retain_Always(result, o, v, oid) == MapPut(result, o, v)

Retain(result, o, v, oid) ==
  IF Within(MustParseOid(o), oid) THEN MapPut(result, o, v) ELSE result

(* GetTable, lines 639-645: the range over the results of one GetBulk, in *)
(* the order given.  st is <<result, newLastOid>>.                        *)
RECURSIVE RangeResults(_, _, _, _)
RangeResults(order, results, oid, st) ==
  IF order = << >> THEN st
  ELSE LET o == Head(order)
           v == MapGet(results, o)
           oAsOid == MustParseOid(o)
       IN RangeResults(Tail(order), results, oid,
                       <<Retain(st[1], o, v, oid), oAsOid>>)

(* GetTable, lines 632 and 647-651: after a round the loop is left when   *)
(* the cursor has not moved or is no longer within the root.              *)
WalkEnds_NoBreak(lastOid, newLastOid, oid) == ~Within(newLastOid, oid)

WalkEnds(lastOid, newLastOid, oid) ==
  lastOid = newLastOid \/ ~Within(newLastOid, oid)

(* func (w SNMP) GetTable(oid Oid): the call, up to the first GetBulk.    *)
GetTable ==
  /\ Alive
  /\ walk.pc = "idle"
  /\ \E oid \in TableRoots :
       walk' = [pc |-> IF Within(oid, oid) THEN "loop" ELSE "done",
                oid |-> oid, lastOid |-> oid, result |-> {},
                batch |-> << >>, stalled |-> FALSE]
  /\ UNCHANGED <<w, ret, hist, pollOut, sig>>

(* One iteration of GetTable's loop: GetBulk(lastOid, 50), the range over *)
(* its results, the comparison with the previous cursor, and the loop     *)
(* condition for the next iteration.  pc = "loop" means that another      *)
(* GetBulk follows.  Once the agent has stalled, every batch is the       *)
(* previous one again.                                                    *)
GetTableRound ==
  /\ Alive
  /\ walk.pc = "loop"
  /\ \E conn \in SessionConnScripts(w.retries) :
       LET req == GetBulkReq(w, walk.lastOid, MaxRepetitions)
           p0 == poll(conn, req, 0, w.retries, HalfSecond)
       IN
       IF p0.err # Nil
       THEN /\ walk' = [walk EXCEPT !.pc = "error"]
            /\ ret' = Returned("GetTable", "received GetBulk error", NoOid, NoVal, p0)
       ELSE
         \/ \* DecodeSequence fails on the datagram received
            /\ ~walk.stalled
            /\ walk' = [walk EXCEPT !.pc = "error"]
            /\ ret' = Received(Returned("GetTable", "received GetBulk error", NoOid,
                                        NoVal, poll(conn, req, 1, w.retries, HalfSecond)),
                               [kind |-> "garbage"], FALSE)
         \/ \E varbinds \in VarbindLists, stall \in BOOLEAN :
              LET results == BulkResult(varbinds, {})
                  p == poll(conn, req, 2 + Len(varbinds), w.retries, HalfSecond)
              IN
              /\ (walk.stalled \/ stall) => walk.batch = <<results>>
              /\ \E order \in RangeOrders(results) :
                   LET st == RangeResults(order, results, walk.oid,
                                          <<walk.result, walk.lastOid>>)
                       newLastOid == st[2]
                       done == WalkEnds(walk.lastOid, newLastOid, walk.oid)
                   IN
                   /\ walk' = [walk EXCEPT !.pc = IF done THEN "done" ELSE "loop",
                                           !.lastOid = newLastOid,
                                           !.result = st[1],
                                           !.batch = <<results>>,
                                           !.stalled = walk.stalled \/ stall]
                   /\ ret' = IF done
                             THEN [Returned("GetTable", Nil, NoOid, NoVal, p)
                                     EXCEPT !.table = st[1]]
                             ELSE [Returned("GetBulk", Nil, NoOid, NoVal, p)
                                     EXCEPT !.table = results]
  /\ UNCHANGED <<w, hist, pollOut, sig>>

InitTable ==
  /\ \E timeout \in Timeouts : w = NewSNMP("public", SNMPv2c, timeout, 0)
  /\ ret = Returned("NewSNMP", Nil, NoOid, NoVal, NoPoll)
  /\ walk = NoWalk
  /\ hist = << >>
  /\ pollOut = NoPollOut
  /\ sig = NoSig

NextTable == GetTable \/ GetTableRound

SpecTable == InitTable /\ [][NextTable]_vars

(* The loop runs on while the walk is neither returned nor failed.        *)
FairSpecTable == SpecTable /\ WF_vars(GetTableRound)

----------------------------------------------------------------------------
(* GetTable against an agent that holds a finite MIB and answers a        *)
(* GetBulk with the entries that follow the requested OID, in the order   *)
(* of their OIDs; it may return fewer than maxRepetitions of them.        *)

MibOids == AgentOids \cup TableRoots \cup {<<1, 1, 2>>}

(* The value the agent holds at an OID. *)
MibValue(o) == IF Len(o) = 3 /\ o[3] = 10 THEN "b" ELSE "a"

Mibs == SUBSET MibOids

(* o is before other in the order of OIDs. *)
OidLess(o, other) == OidLeq(o, other) /\ o # other

(* The first n entries of the MIB after the OID requested.                *)
RECURSIVE NextEntries(_, _, _)
NextEntries(mib, after, n) ==
  LET rest == {o \in mib : OidLess(after, o)} IN
  IF n = 0 \/ rest = {} THEN << >>
  ELSE LET first == CHOOSE o \in rest : \A other \in rest : OidLeq(o, other)
       IN <<<<first, MibValue(first)>>>> \o NextEntries(mib, first, n - 1)

(* GetTable(oid), up to the first GetBulk, with the MIB the agent holds.  *)
GetTableOfMib ==
  /\ Alive
  /\ walk.pc = "idle"
  /\ \E oid \in TableRoots, mib \in Mibs :
       walk' = [pc |-> IF Within(oid, oid) THEN "loop" ELSE "done",
                oid |-> oid, lastOid |-> oid, result |-> {},
                batch |-> << >>, stalled |-> FALSE, mib |-> mib]
  /\ UNCHANGED <<w, ret, hist, pollOut, sig>>

(* One iteration of GetTable's loop, as GetTableRound, with the agent     *)
(* answering from its MIB.                                                *)
GetTableRoundOfMib ==
  /\ Alive
  /\ walk.pc = "loop"
  /\ \E n \in 1..MaxBatch :
       LET req == GetBulkReq(w, walk.lastOid, MaxRepetitions)
           varbinds == NextEntries(walk.mib, walk.lastOid, n)
           results == BulkResult(varbinds, {})
           p == poll(<<"ok">>, req, 2 + Len(varbinds), w.retries, HalfSecond)
       IN
       \E order \in RangeOrders(results) :
          LET st == RangeResults(order, results, walk.oid,
                                 <<walk.result, walk.lastOid>>)
              newLastOid == st[2]
              done == WalkEnds(walk.lastOid, newLastOid, walk.oid)
          IN
          /\ walk' = [walk EXCEPT !.pc = IF done THEN "done" ELSE "loop",
                                  !.lastOid = newLastOid,
                                  !.result = st[1],
                                  !.batch = <<results>>]
          /\ ret' = IF done
                    THEN [Returned("GetTable", Nil, NoOid, NoVal, p)
                            EXCEPT !.table = st[1]]
                    ELSE [Returned("GetBulk", Nil, NoOid, NoVal, p)
                            EXCEPT !.table = results]
  /\ UNCHANGED <<w, hist, pollOut, sig>>

NextWalk == GetTableOfMib \/ GetTableRoundOfMib

SpecWalk == InitTable /\ [][NextWalk]_vars

FairSpecWalk == SpecWalk /\ WF_vars(GetTableRoundOfMib)

----------------------------------------------------------------------------
(* Get, GetNext, GetMultiple and GetBulk on a v2c session.  All four have *)
(* value receivers and change nothing in the session.                     *)

(* getRandomRequestID(): two of the values rand.Int31() can return.       *)
RequestIDs == {1, 2}

(* The datagrams a v2c session receives: one DecodeSequence rejects, or a *)
(* response PDU with a request-id and varbinds.                           *)
V2Varbinds ==
  {l \in VarbindLists :
     \A k \in DOMAIN l : l[k] \in {<<<<1, 1, 1>>, "a">>, <<<<1, 1, 10>>, "b">>}}

V2Datagrams ==
  {[kind |-> "garbage", len |-> 1]}
  \cup {[kind |-> "v2", len |-> 2 + Len(l), requestID |-> id, varbinds |-> l] :
          id \in RequestIDs, l \in V2Varbinds}

V2Req(ws, pdu, requestID, oids) ==
  [version |-> ws.Version, community |-> ws.Community, pdu |-> pdu,
   requestID |-> requestID, oids |-> oids]

(* Lines 210-213 (244-247, 574-577, 609-612): the received datagram is    *)
(* taken as the response when DecodeSequence returns no error.            *)
AcceptsResponse_SameId(requestID, dg) ==
  dg.kind # "garbage" /\ dg.requestID = requestID

AcceptsResponse(requestID, dg) == dg.kind # "garbage"

(* r, for a v1/v2c operation that sent requestID and received dg.         *)
ReceivedV2(r, requestID, dg) ==
  IF dg.kind = "v2"
  THEN [r EXCEPT !.resp = dg.kind, !.requestID = requestID,
                 !.respID = dg.requestID, !.varbinds = dg.varbinds]
  ELSE [r EXCEPT !.resp = dg.kind, !.requestID = requestID]

(* What the operation returns for the response dg, lines 215-220,         *)
(* 249-260, 579-587 and 614-625.  varbinds[1] of the code is the first    *)
(* varbind (varbinds[0] is the sequence marker): indexing it panics when  *)
(* the response has no varbind.                                           *)
V2Result(op, dg, p) ==
  IF op \in {"Get", "GetNext"}
  THEN IF dg.varbinds = << >>
       THEN Panicked(op, "index out of range", p)
       ELSE Returned(op, Nil, IF op = "Get" THEN NoOid ELSE dg.varbinds[1][1],
                     dg.varbinds[1][2], p)
  ELSE [Returned(op, Nil, NoOid, NoVal, p) EXCEPT !.table = BulkResult(dg.varbinds, {})]

(* One v1/v2c request operation: build the request with a fresh           *)
(* request-id, poll, decode, extract.  hist lists the requests built on   *)
(* the session.                                                           *)
V2Request(op, pdu, oids) ==
  /\ Alive
  /\ Len(hist) < MaxRequests
  /\ \E requestID \in RequestIDs, conn \in SessionConnScripts(w.retries) :
       LET req == V2Req(w, pdu, requestID, oids)
           p0 == poll(conn, req, 0, w.retries, HalfSecond)
       IN
       /\ hist' = Append(hist, [requestID |-> requestID])
       /\ IF p0.err # Nil
          THEN ret' = [Returned(op, p0.err, NoOid, NoVal, p0)
                         EXCEPT !.requestID = requestID]
          ELSE \E dg \in V2Datagrams :
                 LET p == poll(conn, req, dg.len, w.retries, HalfSecond) IN
                 IF ~AcceptsResponse(requestID, dg)
                 THEN ret' = ReceivedV2(Returned(op, "decode", NoOid, NoVal, p),
                                        requestID, dg)
                 ELSE ret' = ReceivedV2(V2Result(op, dg, p), requestID, dg)
  /\ UNCHANGED <<w, walk, pollOut, sig>>

(* func (w SNMP) Get(oid Oid) *)
Get == \E oid \in Oids : V2Request("Get", AsnGetRequest, <<oid>>)

(* func (w SNMP) GetMultiple(oids []Oid) *)
GetMultiple ==
  \E oids \in {<<<<1, 1, 1>>, <<1, 1, 10>>>>} :
     V2Request("GetMultiple", AsnGetRequest, oids)

(* func (w SNMP) GetNext(oid Oid) *)
GetNext == \E oid \in Oids : V2Request("GetNext", AsnGetNextRequest, <<oid>>)

(* func (w SNMP) GetBulk(oid Oid, maxRepetitions int) *)
GetBulk ==
  \E oid \in Oids, maxRepetitions \in {MaxRepetitions} :
     V2Request("GetBulk", [pdu |-> "GetBulkRequest", nonRepeaters |-> 0,
                           maxRepetitions |-> maxRepetitions], <<oid>>)

InitV2 ==
  /\ \E retries \in {0, 1} : w = NewSNMP("public", SNMPv2c, HalfSecond, retries)
  /\ ret = Returned("NewSNMP", Nil, NoOid, NoVal, NoPoll)
  /\ walk = NoWalk
  /\ hist = << >>
  /\ pollOut = NoPollOut
  /\ sig = NoSig

NextV2 == Get \/ GetMultiple \/ GetNext \/ GetBulk

SpecV2 == InitV2 /\ [][NextV2]_vars

----------------------------------------------------------------------------
(* ParseTrap.  A decoded sequence is a tuple of elements; the element at  *)
(* index i of the code is the (i+1)-th of the tuple, and element 0 is the *)
(* tag marker.  An element carries its dynamic type t and, under the      *)
(* field of that name, its value.  The octet strings that hold an encoded *)
(* sequence carry what decodes from them: hdr, the security parameters    *)
(* (ok: whether DecodeSequence accepts them), and body, the encrypted     *)
(* scoped PDU (scoped: the sequence its plaintext decodes to).            *)

Marker == [t |-> "marker"]
EInt(x) == [t |-> "int", int |-> x]
EStr(x) == [t |-> "str", str |-> x]
EOid(x) == [t |-> "oid", oid |-> x]
ESeq(x) == [t |-> "seq", seq |-> x]
EHdr(x) == [t |-> "str", hdr |-> x]
EBody(x) == [t |-> "str", body |-> x]

(* x[i].(type): the index is in range and the element has that type.      *)
Has(x, i, type) == (i + 1) \in DOMAIN x /\ x[i + 1].t = type

El(x, i) == x[i + 1]

(* The V3user entries and the TrapUsers tables the sessions are given.    *)
V3user(user, authAlg, authPwd, privAlg, privPwd) ==
  [User |-> user, AuthAlg |-> authAlg, AuthPwd |-> authPwd, PrivAlg |-> privAlg,
   PrivPwd |-> privPwd]

TrapUserTables ==
  {<< >>,
   <<V3user("other", SnmpMD5, "oauth", SnmpAES, "opriv"),
     V3user("trapper", SnmpMD5, "first", SnmpDES, "first"),
     V3user("trapper", SnmpSHA1, "second", SnmpAES, "second")>>}

(* The datagrams handed to ParseTrap: one DecodeSequence rejects; v1 and  *)
(* v2c traps; v3 traps; and datagrams whose envelope decodes but is no     *)
(* trap: three elements only, a version that is a string, a PDU of two     *)
(* elements, a varbind that is an integer.                                 *)
TrapVarbinds(values) ==
  <<Marker, ESeq(<<Marker, EOid(<<1, 1, 1>>), EStr(values[1])>>),
            ESeq(<<Marker, EOid(<<1, 1, 10>>), EStr(values[2])>>)>>

TrapV1Pdu ==
  <<Marker, EOid(<<1, 3, 6>>), EStr("10.0.0.1"), EInt(6), EInt(1), EInt(100),
    ESeq(TrapVarbinds(<<"a", "b">>))>>

TrapV2Pdu == <<Marker, EInt(77), EInt(0), EInt(0), ESeq(TrapVarbinds(<<"c", "d">>))>>

(* A PDU with a sequence of varbinds at element 4 and another at 6.       *)
TrapLongPdu ==
  <<Marker, EOid(<<1, 3, 7>>), EStr("10.0.0.2"), EInt(0), ESeq(TrapVarbinds(<<"e", "f">>)),
    EInt(100), ESeq(TrapVarbinds(<<"g", "h">>))>>

TrapHeader(user, authParam, privParam) ==
  [ok |-> TRUE, engineID |-> "engT", engineBoots |-> 7, engineTime |-> 70,
   user |-> user, authParam |-> authParam, privParam |-> privParam]

TrapBody(mult8, plain) ==
  [mult8 |-> mult8, plain |-> plain,
   scoped |-> <<Marker, EStr("engT"), EStr(""), ESeq(TrapV2Pdu)>>]

TrapV12(wire, pdu) ==
  [kind |-> "msg", env |-> <<Marker, EInt(wire), EStr("public"), ESeq(pdu)>>]

TrapV3(hdr, body) ==
  [kind |-> "msg",
   env |-> <<Marker, EInt(SNMPv3), ESeq(<<Marker, EInt(5), EInt(maxMsgSize), EStr("flags"),
                                          EInt(3)>>),
             EHdr(hdr), EBody(body)>>]

TrapDatagrams ==
  <<[kind |-> "garbage"],
    TrapV12(0, TrapV1Pdu),
    TrapV12(1, TrapV2Pdu),
    TrapV12(0, TrapLongPdu),
    TrapV12(1, TrapLongPdu),
    TrapV3(TrapHeader("trapper", <<1, 2, 3, 4, 5, 6>>, <<0, 0, 0, 9>>), TrapBody(TRUE, "pdu")),
    TrapV3(TrapHeader("nobody", <<1, 2, 3, 4, 5, 6>>, <<0, 0, 0, 9>>), TrapBody(TRUE, "pdu")),
    TrapV3(TrapHeader("trapper", <<1, 2, 3, 4, 5, 6>>, << >>), TrapBody(TRUE, "pdu")),
    TrapV3(TrapHeader("trapper", <<1, 2, 3, 4, 5, 6>>, <<0, 0, 0, 9>>), TrapBody(TRUE, "junk")),
    TrapV3(TrapHeader("trapper", <<1, 2, 3, 4, 5, 6>>, <<0, 0, 0, 9>>), TrapBody(FALSE, "pdu")),
    TrapV3([ok |-> FALSE], TrapBody(TRUE, "pdu")),
    [kind |-> "msg", env |-> <<Marker, EInt(1), EStr("public")>>],
    [kind |-> "msg", env |-> <<Marker, EStr("one"), EStr("public"), ESeq(TrapV2Pdu)>>],
    TrapV12(1, <<Marker, EInt(77), EInt(0)>>),
    TrapV12(1, <<Marker, EInt(77), EInt(0), EInt(0), ESeq(<<Marker, EInt(5)>>)>>)>>

(* What ParseTrap returns: the Trap, the error, whether decrypt was       *)
(* called, and wcopy, the receiver (a copy of the session) as it is left. *)
TrapReturn(t, err, wc, decrypted) ==
  [trap |-> t, err |-> err, panic |-> FALSE, decrypted |-> decrypted, wcopy |-> wc]

TrapPanic(t, why, wc, decrypted) ==
  [trap |-> t, err |-> why, panic |-> TRUE, decrypted |-> decrypted, wcopy |-> wc]

(* Lines 676-679. *)
TrapVersion(wire) == IF wire <= 1 THEN wire + 1 ELSE wire

(* Lines 744-751: the element of the PDU that holds the varbinds.         *)
VarbindsIndex_Always4(version) == 4

VarbindsIndex(version) == IF version = 1 THEN 6 ELSE 4

(* Lines 753-757, from index i on: [panic, map].                          *)
RECURSIVE TrapVarBindsFrom(_, _, _)
TrapVarBindsFrom(varbinds, i, m) ==
  IF ~(i < Len(varbinds)) THEN [panic |-> FALSE, map |-> m]
  ELSE IF ~Has(varbinds, i, "seq") THEN [panic |-> TRUE, map |-> m]
  ELSE LET vb == El(varbinds, i).seq IN
       IF ~Has(vb, 1, "oid") \/ ~(3 \in DOMAIN vb) THEN [panic |-> TRUE, map |-> m]
       ELSE TrapVarBindsFrom(varbinds, i + 1,
                             MapPut(m, OidString(El(vb, 1).oid), El(vb, 2).str))

(* Lines 742-759, for the Trap t filled so far.                           *)
TrapPdu(t, decodedResponse, wc, decrypted) ==
  IF ~Has(decodedResponse, 3, "seq")
  THEN TrapPanic(t, "interface conversion", wc, decrypted)
  ELSE
    LET respPacket == El(decodedResponse, 3).seq
        ix == VarbindsIndex(t.Version)
        t1 == IF t.Version # 1 THEN t
              ELSE [t EXCEPT !.OID = IF Has(respPacket, 1, "oid")
                                     THEN El(respPacket, 1).oid ELSE << >>,
                             !.Address = IF Has(respPacket, 2, "str")
                                         THEN El(respPacket, 2).str ELSE ""]
    IN
    IF t.Version = 1 /\ ~(3 \in DOMAIN respPacket)
    THEN TrapPanic(t, "index out of range", wc, decrypted)
    ELSE IF ~Has(respPacket, ix, "seq")
    THEN TrapPanic(t1, "interface conversion", wc, decrypted)
    ELSE LET vbs == TrapVarBindsFrom(El(respPacket, ix).seq, 1, t1.VarBinds) IN
         IF vbs.panic
         THEN TrapPanic([t1 EXCEPT !.VarBinds = vbs.map], "interface conversion",
                        wc, decrypted)
         ELSE TrapReturn([t1 EXCEPT !.VarBinds = vbs.map], Nil, wc, decrypted)

(* Lines 709-719: the index of the first entry for the user, 0 if none.   *)
FindTrapUser_Last(TrapUsers, user) ==
  LET at == {i \in DOMAIN TrapUsers : TrapUsers[i].User = user}
  IN IF at = {} THEN 0 ELSE CHOOSE i \in at : \A j \in at : j <= i

FindTrapUser(TrapUsers, user) ==
  LET at == {i \in DOMAIN TrapUsers : TrapUsers[i].User = user}
  IN IF at = {} THEN 0 ELSE CHOOSE i \in at : \A j \in at : i <= j

(* Lines 689-738: the v3 branch, on the receiver wc.                      *)
ParseTrapV3(wc, t, env) ==
  IF ~Has(env, 3, "str") THEN TrapPanic(t, "interface conversion", wc, FALSE)
  ELSE
    LET hdr == El(env, 3).hdr IN
    IF ~hdr.ok THEN TrapReturn(t, "decode", wc, FALSE)
    ELSE
      LET w1 == [wc EXCEPT !.engineID = hdr.engineID, !.engineBoots = hdr.engineBoots,
                           !.engineTime = hdr.engineTime, !.user = hdr.user]
          found == FindTrapUser(w1.TrapUsers, w1.user)
      IN
      IF Len(hdr.authParam) = 0 \/ Len(hdr.privParam) = 0
      THEN TrapReturn(t, "response is not encrypted", w1, FALSE)
      ELSE IF Len(w1.TrapUsers) = 0
      THEN TrapReturn(t, "No SNMP V3 trap user configured", w1, FALSE)
      ELSE IF found = 0
      THEN TrapReturn(t, "No matching user found", w1, FALSE)
      ELSE
        LET v3user == w1.TrapUsers[found]
            w2 == [w1 EXCEPT !.authAlg = v3user.AuthAlg, !.privAlg = v3user.PrivAlg,
                             !.authPwd = v3user.AuthPwd, !.privPwd = v3user.PrivPwd]
            t1 == [t EXCEPT !.Username = w2.user]
            w3 == [w2 EXCEPT
                     !.authKey = passwordToKey(w2.authPwd, w2.engineID, w2.authAlg),
                     !.privKey = First16(passwordToKey(w2.privPwd, w2.engineID,
                                                       w2.authAlg))]
        IN
        IF passwordToKeyPanics(w2.authPwd) \/ passwordToKeyPanics(w2.privPwd)
        THEN TrapPanic(t1, "divide by zero", w2, FALSE)
        ELSE IF ~Has(env, 4, "str")
        THEN TrapPanic(t1, "interface conversion", w3, FALSE)
        ELSE
          LET body == El(env, 4).body
              d == decrypt(w3, body, hdr.privParam)
          IN
          IF d.panic THEN TrapPanic(t1, "decrypt", w3, TRUE)
          ELSE IF d.plain # "pdu" THEN TrapReturn(t1, "decode", w3, TRUE)
          ELSE TrapPdu(t1, body.scoped, w3, TRUE)

(* func (w SNMP) ParseTrap(response []byte) (Trap, error), on the         *)
(* receiver ws.                                                           *)
ParseTrapOn(ws, dg) ==
  IF dg.kind = "garbage" THEN TrapReturn(NoTrap, "decode", ws, FALSE)
  ELSE IF ~Has(dg.env, 1, "int") THEN TrapPanic(NoTrap, "interface conversion", ws, FALSE)
  ELSE
    LET t == [NoTrap EXCEPT !.Version = TrapVersion(El(dg.env, 1).int)] IN
    IF t.Version < 3
    THEN IF ~Has(dg.env, 2, "str") THEN TrapPanic(t, "interface conversion", ws, FALSE)
         ELSE TrapPdu([t EXCEPT !.Community = El(dg.env, 2).str], dg.env, ws, FALSE)
    ELSE ParseTrapV3(ws, t, dg.env)

(* A method with a value receiver works on a copy of the session: the     *)
(* caller's session after the call is the one it had before.              *)
CallerSession_Pointer(ws, wcopy) == wcopy

CallerSession(ws, wcopy) == ws

CredsOf(ws) ==
  [user |-> ws.user, authAlg |-> ws.authAlg, privAlg |-> ws.privAlg,
   authKey |-> ws.authKey, privKey |-> ws.privKey]

ParseTrap ==
  /\ Alive
  /\ \E k \in DOMAIN TrapDatagrams :
       LET r == ParseTrapOn(w, TrapDatagrams[k]) IN
       /\ ret' = [Returned("ParseTrap", r.err, NoOid, NoVal, NoPoll) EXCEPT
                    !.panic = r.panic, !.decrypted = r.decrypted, !.trap = r.trap,
                    !.dgram = k,
                    !.creds = IF r.decrypted THEN CredsOf(r.wcopy) ELSE NoCreds]
       /\ w' = CallerSession(w, r.wcopy)
  /\ UNCHANGED <<walk, hist, pollOut, sig>>

(* A v3 session that also receives traps: TrapUsers is set after          *)
(* construction.                                                          *)
InitTrap ==
  /\ \E users \in TrapUserTables :
       w = [NewSNMPv3("admin", SnmpSHA1, "secret", SnmpAES, "private", HalfSecond, 0)
              EXCEPT !.TrapUsers = users]
  /\ ret = Returned("NewSNMPv3", Nil, NoOid, NoVal, NoPoll)
  /\ walk = NoWalk
  /\ hist = << >>
  /\ pollOut = NoPollOut
  /\ sig = NoSig

NextTrap == ParseTrap \/ Discover \/ GetV3

SpecTrap == InitTrap /\ [][NextTrap]_vars

----------------------------------------------------------------------------
(* The poll harness: poll called once, with every input drawn.            *)

PollRequests == {"reqA", "reqB"}

InitPoll ==
  /\ w = NewSNMP("public", SNMPv2c, HalfSecond, 0)
  /\ ret = Returned("NewSNMP", Nil, NoOid, NoVal, NoPoll)
  /\ walk = NoWalk
  /\ hist = << >>
  /\ pollOut = NoPollOut
  /\ sig = NoSig

PollCall ==
  /\ ~pollOut.called
  /\ \E retries \in -1..MaxRetries, toSend \in PollRequests,
        numRead \in 0..MaxRead, timeout \in Timeouts :
       \E conn \in ConnScripts(retries) :
         pollOut' = [retries |-> retries, toSend |-> toSend, datagram |-> numRead,
                     timeout |-> timeout, conn |-> conn,
                     res |-> poll(conn, toSend, numRead, retries, timeout),
                     called |-> TRUE]
  /\ UNCHANGED <<w, ret, walk, hist, sig>>

NextPoll == PollCall

SpecPoll == InitPoll /\ [][NextPoll]_vars

----------------------------------------------------------------------------
(* Claims about poll. *)

PollCalls == pollOut.res.calls

(* The attempts of a poll call in which the connection let every step     *)
(* succeed.                                                               *)
OkAttempts == {i \in 0..pollOut.retries : ConnOutcome(pollOut.conn, i) = "ok"}

StepIndex(call) == CHOOSE k \in 1..4 : ConnSteps[k] = call

(* C3: poll with retries >= 0 makes at most retries+1 attempts; every    *)
(* attempt makes each connection call at most once, in the order          *)
(* SetWriteDeadline, Write, SetReadDeadline, Read, always writes the      *)
(* caller's request bytes, and reaches a call only if the calls before it *)
(* in the same attempt succeeded; a failing call is followed by the next  *)
(* attempt's SetWriteDeadline or by nothing; the first attempt whose Read *)
(* succeeds ends the log, and poll returns its byte count and no error.   *)
C3_PollAttempts ==
  (pollOut.called /\ pollOut.retries >= 0) =>
    /\ \A k \in DOMAIN PollCalls : PollCalls[k].attempt \in 0..pollOut.retries
    /\ \A k, l \in DOMAIN PollCalls :
         (PollCalls[k].call = PollCalls[l].call
            /\ PollCalls[k].attempt = PollCalls[l].attempt) => k = l
    /\ Len(pollOut.res.written)
         = Cardinality({k \in DOMAIN PollCalls : PollCalls[k].call = "Write"})
    /\ \A k \in DOMAIN pollOut.res.written : pollOut.res.written[k] = pollOut.toSend
    /\ \A k \in DOMAIN PollCalls :
         LET c == PollCalls[k]
             s == StepIndex(c.call)
             o == ConnOutcome(pollOut.conn, c.attempt)
         IN /\ s > 1 => /\ k > 1
                        /\ PollCalls[k - 1].attempt = c.attempt
                        /\ PollCalls[k - 1].call = ConnSteps[s - 1]
                        /\ o # ConnSteps[s - 1]
            /\ s = 1 => (k = 1 /\ c.attempt = 0)
                          \/ (k > 1 /\ PollCalls[k - 1].attempt = c.attempt - 1)
            /\ o = c.call =>
                 \/ k = Len(PollCalls)
                 \/ /\ PollCalls[k + 1].call = "SetWriteDeadline"
                    /\ PollCalls[k + 1].attempt = c.attempt + 1
            /\ (o # c.call /\ s < 4) =>
                 /\ k < Len(PollCalls)
                 /\ PollCalls[k + 1].call = ConnSteps[s + 1]
                 /\ PollCalls[k + 1].attempt = c.attempt
    /\ OkAttempts # {} =>
         LET first == CHOOSE i \in OkAttempts : \A j \in OkAttempts : i <= j
         IN /\ pollOut.res.received
            /\ pollOut.res.err = Nil
            /\ pollOut.res.numRead = pollOut.datagram
            /\ PollCalls[Len(PollCalls)] = ConnCall("Read", first, 0)

(* C3's case: a poll call with retries > 0 whose first attempts failed at *)
(* a write and at a read and whose last attempt received a datagram.      *)
C3_Witness ==
  /\ pollOut.called
  /\ pollOut.retries = 2
  /\ pollOut.conn = <<"Write", "Read", "ok">>
  /\ pollOut.res.received
  /\ Len(PollCalls) = 10

(* C4: a poll call that returns without a successful receive returns a   *)
(* non-nil error, the error of the last failed step, for every retries.   *)
C4_PollErrorWhenNothingReceived ==
  (pollOut.called /\ ~pollOut.res.received) =>
    /\ pollOut.res.err # Nil
    /\ pollOut.res.err = ConnOutcome(pollOut.conn, pollOut.retries)

----------------------------------------------------------------------------
(* Claims about the v3 session. *)

(* The counter inside a request's priv-param: the whole of it for AES,    *)
(* the last four bytes for DES.                                           *)
SaltOf(u) == IF u.alg = SnmpAES THEN u.privParam ELSE SubSeq(u.privParam, 3, 4)

(* s < t, for the uint32 DES counter and the signed int64 AES counter.    *)
SaltLess(alg, s, t) ==
  IF alg = SnmpAES
  THEN LessBE([s EXCEPT ![1] = (s[1] + Limb \div 2) % Limb],
              [t EXCEPT ![1] = (t[1] + Limb \div 2) % Limb])
  ELSE LessBE(s, t)

(* C1: of two successive requests encrypt produced on a session since    *)
(* Discover, the second carries a strictly greater salt than the first,   *)
(* and not the same priv-param under the same engine-boots and            *)
(* engine-time.                                                           *)
C1_SaltsIncrease ==
  (Len(hist) = 2 /\ hist[1].privParam # << >> /\ hist[2].privParam # << >>) =>
    /\ SaltLess(hist[2].alg, SaltOf(hist[1]), SaltOf(hist[2]))
    /\ (hist[1].engineBoots = hist[2].engineBoots
          /\ hist[1].engineTime = hist[2].engineTime)
         => hist[1].privParam # hist[2].privParam

(* Discover has returned without error on the session at least once: only *)
(* Discover sets the keys.                                                *)
Discovered == w.privKey # EmptyKey

(* C2: GetV3 and GetNextV3 on a session on which Discover has not        *)
(* completed return an error without handing a datagram to the            *)
(* connection and without terminating the process.                        *)
C2_NotDiscoveredIsAnError ==
  (ret.op \in {"GetV3", "GetNextV3"} /\ ~Discovered) =>
    /\ ~ret.panic
    /\ ret.sent = 0
    /\ ret.err # Nil

(* C8: a GetV3/GetNextV3 response without auth-param or without          *)
(* priv-param makes the call return the not-encrypted error with no OID   *)
(* and no value, and decrypt is not called on it; a Report without        *)
(* priv-param makes Discover, on a session with non-empty passwords,      *)
(* return no error.                                                       *)
C8_UnauthenticatedReply ==
  /\ (ret.op \in {"GetV3", "GetNextV3"} /\ ret.resp = "v3"
        /\ (~ret.authParam \/ ~ret.privParam)) =>
       /\ ~ret.panic
       /\ ret.err = "response is not encrypted"
       /\ ret.oid = NoOid
       /\ ret.val = NoVal
       /\ ~ret.decrypted
  /\ (ret.op = "Discover" /\ ret.resp = "v3" /\ ~ret.privParam
        /\ w.authPwd # "" /\ w.privPwd # "") =>
       /\ ~ret.panic
       /\ ret.err = Nil
       /\ Discovered

(* C8's case: on a discovered session, a GetV3 whose response carries an  *)
(* auth-param and no priv-param has returned.                             *)
C8_Witness ==
  /\ Discovered
  /\ ret.op = "GetV3"
  /\ ret.resp = "v3"
  /\ ret.authParam
  /\ ~ret.privParam
  /\ ret.err = "response is not encrypted"

(* C9: once Discover has returned without error the session's engine-id  *)
(* is non-empty.                                                          *)
C9_EngineIdNonEmpty == Discovered => w.engineID # ""

(* C10: the deadlines poll sets for an operation are the session's       *)
(* timeout.                                                               *)
C10_DeadlineIsSessionTimeout == ret.polled => ret.deadlines = {w.timeout}

V3Requests == {"GetV3", "GetNextV3"}

(* C11: in Discover, GetV3 and GetNextV3 a transport error of the retry  *)
(* loop and a codec error on the received datagram (its envelope or its   *)
(* security parameters) are returned as the operation's error; the        *)
(* process is not terminated.                                             *)
C11_ErrorsAreReturned ==
  ret.op \in V3Requests \cup {"Discover"} =>
    /\ (ret.polled /\ ret.resp = "none" /\ ret.err # "slice bounds out of range") =>
         (~ret.panic /\ ret.err \in {"Write", "Read"})
    /\ ret.resp \in {"garbage", "badhdr"} => (~ret.panic /\ ret.err = "decode")

(* C12: a DES session that decrypts a response whose encrypted scoped    *)
(* PDU has a length that is no multiple of 8 returns the BadCipherLen     *)
(* error to the caller, with no OID and no value; the process is not      *)
(* terminated.                                                            *)
C12_BadCipherLenIsAnError ==
  (ret.op \in V3Requests /\ w.privAlg = SnmpDES /\ Discovered
     /\ ret.decrypted /\ ~ret.mult8) =>
    /\ ~ret.panic
    /\ ret.err = "BadCipherLen"
    /\ ret.oid = NoOid
    /\ ret.val = NoVal

(* The engine-boots and engine-time inside the IV of a request: the      *)
(* first 8 bytes of the AES IV; the DES IV is the pre-IV xor the salt,     *)
(* whose first 4 bytes are engine-boots.                                   *)
ClockInIv(u) ==
  IF u.alg = SnmpAES THEN SubSeq(u.iv, 1, 4) ELSE SubSeq(u.iv, 1, 2) \o BE32(u.engineTime)

(* C17: when GetV3/GetNextV3 returns after decoding a response's         *)
(* security parameters, the session's engine-boots and engine-time are    *)
(* those of the response; and the header and the IV of every request      *)
(* carry the engine-boots and engine-time the session holds when the      *)
(* request is made.                                                       *)
C17_ClockAdopted ==
  [][(ret'.op \in V3Requests /\ vars' # vars) =>
       /\ (ret'.resp = "v3") =>
            (w'.engineBoots = ret'.respBoots /\ w'.engineTime = ret'.respTime)
       /\ (ret'.err # "slice bounds out of range") =>
            LET u == hist'[Len(hist')] IN
            /\ u.engineBoots = w.engineBoots
            /\ u.engineTime = w.engineTime
            /\ u.iv # << >> => ClockInIv(u) = BE32(w.engineBoots) \o BE32(w.engineTime)]_vars

(* C17's case: a request made after Discover and a request made after a   *)
(* response with another engine-boots and engine-time, which it carries.   *)
C17_Witness ==
  /\ Len(hist) = 2
  /\ hist[1].engineBoots # hist[2].engineBoots
  /\ hist[1].engineTime # hist[2].engineTime
  /\ hist[2].iv # << >>
  /\ ret.op = "GetV3"
  /\ ret.resp = "v3"
  /\ ret.err = Nil
  /\ hist[2].engineBoots # w.engineBoots

(* C16: the signed message is the serialized message with the 12 bytes   *)
(* of its auth-param slot replaced by the digest and every other byte     *)
(* unchanged.                                                             *)
C16_DigestInSlot ==
  sig.signed =>
    /\ Len(sig.finalPacket) = Len(sig.packet)
    /\ \A k \in DOMAIN sig.packet :
         sig.finalPacket[k] =
           IF k \in sig.slot..(sig.slot + AuthParamLen - 1)
           THEN sig.digest[k - sig.slot + 1]
           ELSE sig.packet[k]

(* C19: on a session on which Discover has succeeded, authKey is the key *)
(* derived from authPwd, the session's current engine-id and the auth     *)
(* hash, and privKey the first 16 bytes of the key derived from privPwd,  *)
(* the current engine-id and the auth hash.                               *)
C19_KeysMatchEngineId ==
  Discovered =>
    /\ w.authKey = passwordToKey(w.authPwd, w.engineID, w.authAlg)
    /\ w.privKey = First16(passwordToKey(w.privPwd, w.engineID, w.authAlg))

----------------------------------------------------------------------------
(* Claims about the v1/v2c requests. *)

V2Requests == {"Get", "GetNext", "GetMultiple", "GetBulk"}

(* C18: whatever request-id the datagram received carries, a v1/v2c      *)
(* request operation takes it as the response to its request: it returns  *)
(* no error and the content of that datagram (Get and GetNext need a      *)
(* first varbind to index).                                               *)
C18_NoRequestIdCorrelation ==
  (ret.op \in V2Requests /\ ret.resp = "v2") =>
    IF ret.op \in {"Get", "GetNext"} /\ ret.varbinds = << >>
    THEN ret.panic
    ELSE /\ ~ret.panic
         /\ ret.err = Nil
         /\ ret.op = "Get" => ret.val = ret.varbinds[1][2]
         /\ ret.op = "GetNext" =>
              (ret.oid = ret.varbinds[1][1] /\ ret.val = ret.varbinds[1][2])
         /\ ret.op \in {"GetMultiple", "GetBulk"} =>
              ret.table = BulkResult(ret.varbinds, {})

(* C18's case: the second request of a session, made with another         *)
(* request-id than the first, received in its second attempt a datagram   *)
(* carrying the first request's id, and Get returned that datagram's      *)
(* value.                                                                 *)
C18_Witness ==
  /\ Len(hist) = 2
  /\ hist[1].requestID # hist[2].requestID
  /\ ret.op = "Get"
  /\ ret.requestID = hist[2].requestID
  /\ ret.resp = "v2"
  /\ ret.respID = hist[1].requestID
  /\ ret.sent = 2
  /\ ret.err = Nil
  /\ ret.val = "b"

----------------------------------------------------------------------------
(* Claims about ParseTrap. *)

(* The datagram the last ParseTrap was given, its envelope, and for a     *)
(* wire-version-3 one its security parameters.                            *)
TrapGiven == TrapDatagrams[ret.dgram]

TrapWire == IF Has(TrapGiven.env, 1, "int") THEN El(TrapGiven.env, 1).int ELSE -1

TrapHdr == El(TrapGiven.env, 3).hdr

TrapParsed == ret.op = "ParseTrap" /\ TrapGiven.kind = "msg"

(* The entries of the session's TrapUsers for the user of the datagram.   *)
TrapMatches == {i \in DOMAIN w.TrapUsers : w.TrapUsers[i].User = TrapHdr.user}

(* C13: ParseTrap of a wire-version-3 datagram returns without error     *)
(* only if TrapUsers has an entry for the user of its security            *)
(* parameters; without one it returns an error and a Trap with no         *)
(* varbinds and decrypts nothing; with several, it decrypts with the      *)
(* credentials of the first of them in list order, and keys derived from  *)
(* those and the datagram's engine-id.                                    *)
C13_TrapUserRequired ==
  (TrapParsed /\ TrapWire = 3 /\ TrapHdr.ok) =>
    /\ (ret.err = Nil /\ ~ret.panic) => TrapMatches # {}
    /\ TrapMatches = {} =>
         /\ ~ret.panic
         /\ ret.err # Nil
         /\ ret.trap.VarBinds = {}
         /\ ~ret.decrypted
    /\ ret.decrypted =>
         /\ TrapMatches # {}
         /\ LET u == w.TrapUsers[CHOOSE i \in TrapMatches : \A j \in TrapMatches : i <= j]
            IN ret.creds =
                 [user |-> TrapHdr.user, authAlg |-> u.AuthAlg, privAlg |-> u.PrivAlg,
                  authKey |-> passwordToKey(u.AuthPwd, TrapHdr.engineID, u.AuthAlg),
                  privKey |-> First16(passwordToKey(u.PrivPwd, TrapHdr.engineID,
                                                    u.AuthAlg))]

(* C13's case: a v3 trap for a user with two entries, after another       *)
(* user's entry, was decrypted and parsed.                                *)
C13_Witness ==
  /\ TrapParsed
  /\ TrapWire = 3
  /\ Cardinality(TrapMatches) = 2
  /\ w.TrapUsers[1].User # TrapHdr.user
  /\ ret.decrypted
  /\ ret.err = Nil
  /\ ret.trap.Username = "trapper"
  /\ ret.trap.VarBinds # {}

(* The map of the varbinds at element i of a PDU (distinct OIDs).         *)
VarBindsAt(pdu, i) ==
  {<<OidString(El(El(pdu, i).seq, k).seq[2].oid), El(El(pdu, i).seq, k).seq[3].str>> :
     k \in 1..(Len(El(pdu, i).seq) - 1)}

(* The PDU of the datagram given: element 3 of the envelope, or of the    *)
(* decrypted scoped PDU.                                                  *)
TrapGivenPdu ==
  IF TrapWire = 3 THEN El(El(TrapGiven.env, 4).body.scoped, 3).seq
  ELSE El(TrapGiven.env, 3).seq

(* C14: a v1/v2c trap is never answered with an error, and a Trap         *)
(* returned without error has Version wire+1 for wire versions 0 and 1 and 3 for   *)
(* wire version 3; with Version 1 it has OID and Address of PDU elements  *)
(* 1 and 2 and the varbinds of PDU element 6, with Version 2 or 3 no OID, *)
(* no Address and the varbinds of PDU element 4; Community is envelope    *)
(* element 2 for Versions 1 and 2 and empty for 3, Username the user of   *)
(* the security parameters for Version 3 and empty for 1 and 2.           *)
C14_TrapFields ==
  (TrapParsed /\ TrapWire \in {0, 1, 3}) =>
    /\ (TrapWire \in {0, 1} /\ ~ret.panic) => ret.err = Nil
    /\ (~ret.panic /\ ret.err = Nil) =>
         /\ ret.trap.Version = (IF TrapWire = 3 THEN 3 ELSE TrapWire + 1)
         /\ IF ret.trap.Version = 1
            THEN /\ ret.trap.OID = El(TrapGivenPdu, 1).oid
                 /\ ret.trap.Address = El(TrapGivenPdu, 2).str
                 /\ ret.trap.VarBinds = VarBindsAt(TrapGivenPdu, 6)
            ELSE /\ ret.trap.OID = << >>
                 /\ ret.trap.Address = ""
                 /\ ret.trap.VarBinds = VarBindsAt(TrapGivenPdu, 4)
         /\ ret.trap.Community
              = (IF ret.trap.Version < 3 THEN El(TrapGiven.env, 2).str ELSE "")
         /\ ret.trap.Username = (IF ret.trap.Version = 3 THEN TrapHdr.user ELSE "")

(* C14's case: a wire-version-0 trap whose PDU has sequences of varbinds  *)
(* at elements 4 and 6 was parsed.                                        *)
C14_Witness ==
  /\ TrapParsed
  /\ TrapWire = 0
  /\ ret.err = Nil
  /\ ret.trap.Version = 1
  /\ Has(TrapGivenPdu, 4, "seq")
  /\ ret.trap.VarBinds = VarBindsAt(TrapGivenPdu, 6)
  /\ ret.trap.VarBinds # VarBindsAt(TrapGivenPdu, 4)

(* C20: a ParseTrap call changes no field of the session, whatever it is *)
(* given and whatever it returns; and the GetV3 that follows it builds    *)
(* its request with the user, keys and engine clock of that session.      *)
C20_ParseTrapKeepsSession ==
  [][/\ (ret'.op = "ParseTrap" /\ vars' # vars) => w' = w
     /\ (ret.op = "ParseTrap" /\ ret'.op = "GetV3"
           /\ ret'.err # "slice bounds out of range") =>
          LET u == hist'[Len(hist')] IN
          /\ u.user = w.user
          /\ u.alg = w.privAlg
          /\ u.engineBoots = w.engineBoots
          /\ u.engineTime = w.engineTime
          /\ u.authKey = w.authKey
          /\ u.authAlg = w.authAlg
          /\ u.iv # << >> => u.privKey = w.privKey]_vars

(* C20's case: on a discovered session ParseTrap has decrypted a trap of  *)
(* another engine with another user's credentials, and the session still  *)
(* has its own.                                                           *)
C20_Witness ==
  /\ TrapParsed
  /\ Discovered
  /\ ret.decrypted
  /\ ret.err = Nil
  /\ ret.creds.user # w.user
  /\ ret.creds.privAlg # w.privAlg
  /\ ret.creds.privKey # w.privKey
  /\ TrapHdr.engineID # w.engineID
  /\ TrapHdr.engineBoots # w.engineBoots

----------------------------------------------------------------------------
(* Claims about GetTable. *)

WalkOver == walk.pc \in {"done", "error"}

(* The OIDs of the batch of the last round that are not within the root.  *)
Escaped ==
  IF walk.pc = "idle" \/ walk.batch = << >> THEN {}
  ELSE {k \in MapKeys(walk.batch[1]) : ~Within(MustParseOid(k), walk.oid)}

(* C5: once the agent answers every GetBulk with the batch of the round  *)
(* before, the walk ends.                                                 *)
C5_StalledWalkTerminates ==
  [](( walk.pc # "idle" /\ walk.stalled) => <>WalkOver)

(* C6: after a round whose batch contains an OID that is not within the  *)
(* root no further GetBulk follows: the walk has ended in that round.     *)
C6_EscapeEndsWalk == Escaped # {} => walk.pc # "loop"

(* C15: after a round with a non-empty batch the cursor is the largest   *)
(* OID of the batch, in whatever order the batch was enumerated.          *)
C15_CursorIsLargest ==
  (walk.pc \in {"loop", "done"} /\ walk.batch # << >> /\ walk.batch[1] # {}) =>
    /\ OidString(walk.lastOid) \in MapKeys(walk.batch[1])
    /\ \A k \in MapKeys(walk.batch[1]) : OidLeq(MustParseOid(k), walk.lastOid)

(* The entries of the agent's MIB that are within the root of the walk.   *)
MibWithinRoot ==
  {<<OidString(o), MibValue(o)>> : o \in {e \in walk.mib : Within(e, walk.oid)}}

(* C21: against an agent answering from a finite MIB the walk ends, and  *)
(* the map it returns holds exactly the MIB's entries within the root,    *)
(* each with the agent's value.                                           *)
C21_WalkReturnsSubtree ==
  /\ [](walk.pc = "done" =>
          (ret.op = "GetTable" /\ ret.err = Nil /\ ret.table = MibWithinRoot))
  /\ [](walk.pc = "loop" => <>(walk.pc = "done"))

(* The entries of the agent's MIB that are within the root of the walk,   *)
(* the one at the root OID itself excepted.                               *)
MibBelowRoot == {kv \in MibWithinRoot : kv[1] # OidString(walk.oid)}

(* C21, amended: against an agent answering from a finite MIB the walk   *)
(* ends, and the map it returns holds exactly the MIB's entries within    *)
(* the root other than an entry at the root OID itself, each with the     *)
(* agent's value, in whatever order the batches are enumerated.           *)
C21_WalkReturnsBelowRoot ==
  /\ [](walk.pc = "done" =>
          (ret.op = "GetTable" /\ ret.err = Nil /\ ret.table = MibBelowRoot))
  /\ [](walk.pc = "loop" => <>(walk.pc = "done"))

(* C21's case: a walk of more than one round has returned three entries   *)
(* from a MIB that also holds an entry at the root OID, one before the    *)
(* root and one after its subtree.                                        *)
C21_Witness ==
  /\ walk.pc = "done"
  /\ "mib" \in DOMAIN walk
  /\ Cardinality(walk.result) = 3
  /\ walk.oid \in walk.mib
  /\ <<1>> \in walk.mib
  /\ <<1, 10>> \in walk.mib
  /\ ret.table = walk.result
  /\ Cardinality(walk.batch[1]) < 3

(* C22: ParseTrap never terminates the process: given a datagram whose   *)
(* envelope decodes, whatever is in it, it returns a Trap or an error.    *)
C22_ParseTrapAlwaysReturns == TrapParsed => ~ret.panic

(* C7: every key of the accumulator, and of the map GetTable returns, is *)
(* the text of an OID within the root; no key has two entries; and an     *)
(* OID within the root of the last batch has the value of that batch.     *)
C7_AccumulatorWithinRoot ==
  walk.pc # "idle" =>
    /\ \A kv \in walk.result :
         /\ Within(MustParseOid(kv[1]), walk.oid)
         /\ OidString(MustParseOid(kv[1])) = kv[1]
         /\ \A other \in walk.result : other[1] = kv[1] => other = kv
    /\ (walk.batch # << >> /\ walk.pc # "error") =>
         \A kv \in walk.batch[1] :
           Within(MustParseOid(kv[1]), walk.oid) => kv \in walk.result
    /\ walk.pc = "done" => ret.table = walk.result

(* C7's case: a walk has returned two entries, the last batch held an OID *)
(* outside the root and one within it whose value it changed to "b".      *)
C7_Witness ==
  /\ walk.pc = "done"
  /\ Cardinality(walk.result) = 2
  /\ Escaped # {}
  /\ \E kv \in walk.batch[1] : kv \in walk.result /\ kv[2] = "b"
  /\ \E kv \in walk.result : kv[2] = "a"

====
